---- MODULE Spec2Model ----
(***************************************************************************)
(* Users microservice (main.py): Google login with find-or-create          *)
(* provisioning, HS256 bearer tokens, owner-only update and delete, and    *)
(* Pub/Sub change events.                                                  *)
(*                                                                         *)
(* Each route handler is an operator from the request and the current      *)
(* state to its response and effects, and an action applies it.  Requests  *)
(* are modelled as the handlers receive them, with parameters already      *)
(* typed by the handler signatures.  A handler is cut into steps at its    *)
(* database writes and at the bus publish, so that two requests interleave *)
(* the way two workers do.  `last` is the most recent response.            *)
(***************************************************************************)
EXTENDS Integers, Sequences, FiniteSets, TLC

\* ---------------------------------------------------------------- bounds
MaxIds == 2
MaxTicks == 1
MaxTokens == 1
MaxBusFailures == 1

\* ------------------------------------------------------ program constants
JWT_EXP_SECONDS == 3600
JWT_SECRET == "JWT_SECRET"
JWT_ALGO == "HS256"

None == "None"
NoId == 0
Procs == {"w1", "w2"}
Ids == 1..MaxIds
Emails == {"alice@example.com", "bob@example.com"}

VARIABLES users, events, failed, publisher, clock, ticks, uuids, issued,
          pc, loc, last, environ, os_name, engine

vars == <<users, events, failed, publisher, clock, ticks, uuids, issued,
          pc, loc, last, environ, os_name, engine>>

\* What database_connection reads and what it builds.
dbvars == <<environ, os_name, engine>>

\* ------------------------------------------------------------ data shapes
NoRow ==
  [id |-> NoId, email |-> None, name |-> None, phone_number |-> None,
   bio |-> None, location |-> None, created_at |-> 0, updated_at |-> 0]

NoToken ==
  [sub |-> NoId, email |-> None, iat |-> 0, exp |-> 0, typ |-> None,
   alg |-> None, key |-> None]

NoHeader == [present |-> FALSE, scheme |-> "", token |-> NoToken]

NoLast == [op |-> None, status |-> 0, detail |-> None, at |-> 0]

Bearer(tok) == [present |-> TRUE, scheme |-> "Bearer ", token |-> tok]

\* ---------------------------------------------------------------- tokens
generate_token(user_id, email, expires_in, typ, now) ==
  [sub |-> user_id, email |-> email, iat |-> now, exp |-> now + expires_in,
   typ |-> typ, alg |-> JWT_ALGO, key |-> JWT_SECRET]

generate_jwt(user_id, email, now) ==
  generate_token(user_id, email, JWT_EXP_SECONDS, "access", now)

\* A decoder that already refuses a token at the second it expires.
jwt_decode_strict(token, secret, algo, now) ==
  IF token.key # secret \/ token.alg # algo THEN [ok |-> FALSE, payload |-> NoToken]
  ELSE IF token.exp <= now THEN [ok |-> FALSE, payload |-> NoToken]
  ELSE [ok |-> TRUE, payload |-> token]

\* A decoder that verifies the signature and never looks at exp.
jwt_decode_no_exp(token, secret, algo, now) ==
  IF token.key # secret \/ token.alg # algo THEN [ok |-> FALSE, payload |-> NoToken]
  ELSE [ok |-> TRUE, payload |-> token]

\* jwt.decode(token, JWT_SECRET, algorithms=[JWT_ALGO]): the signature must
\* verify under the secret and algorithm, and exp must not be before now.
jwt_decode(token, secret, algo, now) ==
  IF token.key # secret \/ token.alg # algo THEN [ok |-> FALSE, payload |-> NoToken]
  ELSE IF token.exp < now THEN [ok |-> FALSE, payload |-> NoToken]
  ELSE [ok |-> TRUE, payload |-> token]

\* A guard that does not look at the type tag.
require_auth_any_typ(authorization, now) ==
  IF ~authorization.present \/ authorization.scheme # "Bearer "
  THEN [status |-> 401, detail |-> "Missing or malformed Authorization header",
        payload |-> NoToken]
  ELSE LET d == jwt_decode(authorization.token, JWT_SECRET, JWT_ALGO, now) IN
       IF ~d.ok
       THEN [status |-> 401, detail |-> "Invalid or expired token", payload |-> NoToken]
       ELSE [status |-> 200, detail |-> None, payload |-> d.payload]

\* A guard that also wants the subject's Account to be in the store.
require_auth_live_account(authorization, now) ==
  IF ~authorization.present \/ authorization.scheme # "Bearer "
  THEN [status |-> 401, detail |-> "Missing or malformed Authorization header",
        payload |-> NoToken]
  ELSE LET d == jwt_decode(authorization.token, JWT_SECRET, JWT_ALGO, now) IN
       IF ~d.ok \/ (\A u \in users : u.id # d.payload.sub)
       THEN [status |-> 401, detail |-> "Invalid or expired token", payload |-> NoToken]
       ELSE IF d.payload.typ # "access"
       THEN [status |-> 401, detail |-> "Invalid token type", payload |-> NoToken]
       ELSE [status |-> 200, detail |-> None, payload |-> d.payload]

require_auth(authorization, now) ==
  IF ~authorization.present \/ authorization.scheme # "Bearer "
  THEN [status |-> 401, detail |-> "Missing or malformed Authorization header",
        payload |-> NoToken]
  ELSE LET d == jwt_decode(authorization.token, JWT_SECRET, JWT_ALGO, now) IN
       IF ~d.ok
       THEN [status |-> 401, detail |-> "Invalid or expired token", payload |-> NoToken]
       ELSE IF d.payload.typ # "access"
       THEN [status |-> 401, detail |-> "Invalid token type", payload |-> NoToken]
       ELSE [status |-> 200, detail |-> None, payload |-> d.payload]

\* ----------------------------------------------------------------- store
\* A lookup by email that never finds a row.
ByEmailNone(rows, email) == {}

ByEmail(rows, email) == {u \in rows : u.email = email}

ById(rows, id) == {u \in rows : u.id = id}

\* A users table whose email column carries no unique index.
IntegrityViolationIdOnly(rows, row) ==
  \E u \in rows : u.id = row.id

\* The users table: primary key on id, unique index on email.
IntegrityViolation(rows, row) ==
  \E u \in rows : u.id = row.id \/ u.email = row.email

\* A skeleton row whose id is derived from the email instead of being
\* drawn afresh.
SkeletonUserIdFromEmail(new_user_id, email, name) ==
  [id |-> IF email = "alice@example.com" THEN 1 ELSE 2, email |-> email,
   name |-> name, phone_number |-> None, bio |-> None, location |-> None,
   created_at |-> 0, updated_at |-> 0]

\* UserDB(id=..., email=..., name=..., phone_number=None, bio=None,
\* location=None); the timestamps are column defaults filled at the insert.
SkeletonUser(new_user_id, email, name) ==
  [id |-> new_user_id, email |-> email, name |-> name, phone_number |-> None,
   bio |-> None, location |-> None, created_at |-> 0, updated_at |-> 0]

\* An owner check that lets every subject through.
SubjectMismatchNever(auth, user_id) == FALSE

\* The owner check of update_user and delete_user.
SubjectMismatch(auth, user_id) == auth.sub # user_id

\* ------------------------------------------------------------------- bus
Event(event_type, payload, now) ==
  [event_type |-> event_type, timestamp |-> now, payload |-> payload]

EventPayload(id, email) == [id |-> id, email |-> email]

\* publish_user_event: returns without sending when no publisher is
\* configured; otherwise sends, and raises when the bus refuses (busOk false).
\* `failed` counts the publishes the bus has refused.
publish_user_event(event_type, payload, busOk) ==
  IF ~publisher
  THEN [raised |-> FALSE, events |-> events, failed |-> failed]
  ELSE IF busOk
  THEN [raised |-> FALSE,
        events |-> Append(events, Event(event_type, payload, clock)),
        failed |-> failed]
  ELSE [raised |-> TRUE, events |-> events, failed |-> failed + 1]

\* The outcomes the bus can give a publish in the current state.
BusOutcomes == IF publisher /\ failed < MaxBusFailures THEN {TRUE, FALSE} ELSE {TRUE}

\* ----------------------------------------------------------------- login
\* What verify_oauth2_token makes of the google_token: rejected, or the
\* email and the name ("None" when the claim set has no name).
Assertions ==
  { [valid |-> TRUE, email |-> "alice@example.com", name |-> "Alice"],
    [valid |-> TRUE, email |-> "bob@example.com", name |-> None],
    [valid |-> FALSE, email |-> "alice@example.com", name |-> "Alice"] }

\* A login that goes on with the claims of an assertion that failed
\* verification.
google_login_unverified(google_token) ==
  LET email == google_token.email
      name == IF google_token.name = None THEN "Unknown User"
              ELSE google_token.name
      found == ByEmail(users, email)
  IN IF found # {}
     THEN LET user_db == CHOOSE u \in found : TRUE IN
          [status |-> 200, detail |-> None,
           token |-> generate_jwt(user_db.id, user_db.email, clock),
           user |-> user_db, pending |-> FALSE]
     ELSE [status |-> 0, detail |-> None, token |-> NoToken,
           user |-> SkeletonUser(uuids + 1, email, name), pending |-> TRUE]

\* google_login up to and including the lookup by email (lines 175-204).
\* `pending` is set when the handler goes on to insert `user`.
google_login(google_token) ==
  IF ~google_token.valid
  THEN [status |-> 401, detail |-> "Invalid Google token", token |-> NoToken,
        user |-> NoRow, pending |-> FALSE]
  ELSE LET email == google_token.email
           name == IF google_token.name = None THEN "Unknown User"
                   ELSE google_token.name
           found == ByEmail(users, email)
       IN IF found # {}
          THEN LET user_db == CHOOSE u \in found : TRUE IN
               [status |-> 200, detail |-> None,
                token |-> generate_jwt(user_db.id, user_db.email, clock),
                user |-> user_db, pending |-> FALSE]
          ELSE [status |-> 0, detail |-> None, token |-> NoToken,
                user |-> SkeletonUser(uuids + 1, email, name), pending |-> TRUE]

\* An insert whose conflict is passed over in silence: the store stays as it
\* is and the handler carries on with the row it built.
google_login_commit_quiet(user_db) ==
  LET row == [user_db EXCEPT !.created_at = clock, !.updated_at = clock] IN
  IF IntegrityViolation(users, row)
  THEN [raised |-> FALSE, users |-> users, user |-> row]
  ELSE [raised |-> FALSE, users |-> users \cup {row}, user |-> row]

\* db.add / db.commit / db.refresh of the skeleton user (lines 205-207).
google_login_commit(user_db) ==
  LET row == [user_db EXCEPT !.created_at = clock, !.updated_at = clock] IN
  IF IntegrityViolation(users, row)
  THEN [raised |-> TRUE, users |-> users, user |-> NoRow]
  ELSE [raised |-> FALSE, users |-> users \cup {row}, user |-> row]

\* The guarded publish of USER_CREATED, then the token and the response
\* (lines 209-233).
google_login_finish(user_db, busOk) ==
  LET pub == publish_user_event("USER_CREATED",
                EventPayload(user_db.id, user_db.email), busOk)
  IN [status |-> 200, detail |-> None,
      token |-> generate_jwt(user_db.id, user_db.email, clock),
      user |-> user_db, events |-> pub.events, failed |-> pub.failed]

\* ---------------------------------------------------- protected requests
\* Instances of UserUpdate (models/user.py): five required fields.
Payloads ==
  { [name |-> nm, email |-> "bob@example.com", phone_number |-> "+12015550100",
     housing_preference |-> "apartment", listing_group |-> "zillow"] :
    nm \in {"Bob", ""} }

Falsy(v) == v = "" \/ v = None

HasAttr(obj, f) == f \in DOMAIN obj

\* Field assignments that also take the email the payload carries, and read
\* nothing the payload class does not declare.
ApplyUpdate_with_email(user_db, payload, now) ==
  LET s1 == IF ~Falsy(payload.name) THEN [user_db EXCEPT !.name = payload.name]
            ELSE user_db
      s2 == IF ~Falsy(payload.phone_number)
            THEN [s1 EXCEPT !.phone_number = payload.phone_number] ELSE s1
      s3 == IF ~Falsy(payload.email) THEN [s2 EXCEPT !.email = payload.email] ELSE s2
  IN [raised |-> FALSE, row |-> [s3 EXCEPT !.updated_at = now]]

\* Lines 314-328 of update_user on the loaded row: each truthy field is
\* assigned; reading an attribute the payload class does not declare raises
\* AttributeError before anything is committed.
ApplyUpdate(user_db, payload, now) ==
  LET s1 == IF ~Falsy(payload.name) THEN [user_db EXCEPT !.name = payload.name]
            ELSE user_db
      s2 == IF ~Falsy(payload.phone_number)
            THEN [s1 EXCEPT !.phone_number = payload.phone_number] ELSE s1
  IN IF ~HasAttr(payload, "bio") THEN [raised |-> TRUE, row |-> user_db]
     ELSE LET s3 == IF ~Falsy(payload.bio) THEN [s2 EXCEPT !.bio = payload.bio] ELSE s2
          IN IF ~HasAttr(payload, "location") THEN [raised |-> TRUE, row |-> user_db]
             ELSE LET s4 == IF ~Falsy(payload.location)
                            THEN [s3 EXCEPT !.location = payload.location] ELSE s3
                  IN [raised |-> FALSE, row |-> [s4 EXCEPT !.updated_at = now]]

Reject(status, detail) ==
  [status |-> status, detail |-> detail, user |-> NoRow, users |-> users,
   events |-> events, failed |-> failed]

\* An update that sends its event as soon as the owner check has passed,
\* before it has looked the row up.
update_user_publish_first(authorization, user_id, payload, busOk) ==
  LET auth == require_auth(authorization, clock)
      found == ById(users, user_id)
      pub == publish_user_event("USER_UPDATED", EventPayload(user_id, None), busOk)
  IN IF auth.status # 200 THEN Reject(auth.status, auth.detail)
     ELSE IF SubjectMismatch(auth.payload, user_id)
     THEN Reject(403, "You can only update your own profile")
     ELSE IF found = {}
     THEN [status |-> 404, detail |-> "User not found", user |-> NoRow,
           users |-> users, events |-> pub.events, failed |-> pub.failed]
     ELSE LET user_db == CHOOSE u \in found : TRUE
              upd == ApplyUpdate(user_db, payload, clock)
          IN IF upd.raised
             THEN [status |-> 500, detail |-> "AttributeError", user |-> NoRow,
                   users |-> users, events |-> pub.events, failed |-> pub.failed]
             ELSE [status |-> 200, detail |-> None, user |-> upd.row,
                   users |-> (users \ {user_db}) \cup {upd.row},
                   events |-> pub.events, failed |-> pub.failed]

\* update_user.  It reads the row once and writes at most once; the commit,
\* the refresh and the publish follow each other in the same step.
update_user(authorization, user_id, payload, busOk) ==
  LET auth == require_auth(authorization, clock)
      found == ById(users, user_id)
  IN IF auth.status # 200 THEN Reject(auth.status, auth.detail)
     ELSE IF SubjectMismatch(auth.payload, user_id)
     THEN Reject(403, "You can only update your own profile")
     ELSE IF found = {} THEN Reject(404, "User not found")
     ELSE LET user_db == CHOOSE u \in found : TRUE
              upd == ApplyUpdate(user_db, payload, clock)
              pub == publish_user_event("USER_UPDATED",
                        EventPayload(user_db.id, None), busOk)
          IN IF upd.raised THEN Reject(500, "AttributeError")
             ELSE [status |-> IF pub.raised THEN 500 ELSE 200,
                   detail |-> IF pub.raised THEN "PublishError" ELSE None,
                   user |-> IF pub.raised THEN NoRow ELSE upd.row,
                   users |-> (users \ {user_db}) \cup {upd.row},
                   events |-> pub.events, failed |-> pub.failed]

\* The bus is asked only by an update that gets as far as its publish.
UpdateBusOutcomes(authorization, user_id, payload) ==
  IF update_user(authorization, user_id, payload, TRUE).status = 200
  THEN BusOutcomes ELSE {TRUE}

\* A delete that looks the row up before it compares the subject.
delete_user_lookup_first(authorization, user_id) ==
  LET auth == require_auth(authorization, clock)
      found == ById(users, user_id)
  IN IF auth.status # 200
     THEN [status |-> auth.status, detail |-> auth.detail, user |-> NoRow,
           pending |-> FALSE]
     ELSE IF found = {}
     THEN [status |-> 404, detail |-> "User not found", user |-> NoRow,
           pending |-> FALSE]
     ELSE IF SubjectMismatch(auth.payload, user_id)
     THEN [status |-> 403, detail |-> "Not authorized to delete this user",
           user |-> NoRow, pending |-> FALSE]
     ELSE [status |-> 0, detail |-> None, user |-> CHOOSE u \in found : TRUE,
           pending |-> TRUE]

\* delete_user up to and including the lookup by id (lines 343-348).
\* `pending` is set when the handler goes on to delete `user`.
delete_user(authorization, user_id) ==
  LET auth == require_auth(authorization, clock)
      found == ById(users, user_id)
  IN IF auth.status # 200
     THEN [status |-> auth.status, detail |-> auth.detail, user |-> NoRow,
           pending |-> FALSE]
     ELSE IF SubjectMismatch(auth.payload, user_id)
     THEN [status |-> 403, detail |-> "Not authorized to delete this user",
           user |-> NoRow, pending |-> FALSE]
     ELSE IF found = {}
     THEN [status |-> 404, detail |-> "User not found", user |-> NoRow,
           pending |-> FALSE]
     ELSE [status |-> 0, detail |-> None, user |-> CHOOSE u \in found : TRUE,
           pending |-> TRUE]

\* A DELETE with no WHERE clause.
delete_user_commit_all(user) == {}

\* db.delete / db.commit (lines 350-351): DELETE by primary key; a row that
\* is already gone matches nothing and the commit still succeeds.
delete_user_commit(user) == {u \in users : u.id # user.id}

\* The unguarded publish of USER_DELETED, then the response (lines 353-357).
delete_user_finish(user_id, busOk) ==
  LET pub == publish_user_event("USER_DELETED", EventPayload(user_id, None), busOk)
  IN [status |-> IF pub.raised THEN 500 ELSE 200,
      detail |-> IF pub.raised THEN "PublishError" ELSE "User deleted successfully",
      events |-> pub.events, failed |-> pub.failed]

\* ------------------------------------------------------- create and list
\* Instances of UserCreate (models/user.py): the id is the client's, or
\* NoId when the client leaves it to the default factory.
Creates ==
  { [id |-> i, name |-> "Bob", email |-> e, phone_number |-> "+12015550100",
     housing_preference |-> "apartment", listing_group |-> "zillow"] :
    i \in {NoId} \cup {a.id : a \in users}, e \in Emails }

\* create(profile): the handler is not among the sources; it is written
\* from its description.  A profile whose id or email is already stored is
\* answered 409 and nothing is written or sent; otherwise the row is
\* inserted in one commit and USER_CREATED is published, a refusal of the
\* bus being swallowed.
create_user(payload, busOk) ==
  LET new_id == IF payload.id = NoId THEN uuids + 1 ELSE payload.id
      row == [id |-> new_id, email |-> payload.email, name |-> payload.name,
              phone_number |-> payload.phone_number, bio |-> None,
              location |-> None, created_at |-> clock, updated_at |-> clock]
      pub == publish_user_event("USER_CREATED",
                EventPayload(row.id, row.email), busOk)
  IN IF IntegrityViolation(users, row)
     THEN [status |-> 409, detail |-> "ConflictError", users |-> users,
           events |-> events, failed |-> failed, uuids |-> uuids]
     ELSE [status |-> 201, detail |-> None, users |-> users \cup {row},
           events |-> pub.events, failed |-> pub.failed,
           uuids |-> IF payload.id = NoId THEN uuids + 1 ELSE uuids]

\* The bus is asked only by a create that inserts.
CreateBusOutcomes(payload) ==
  IF create_user(payload, TRUE).status = 201 THEN BusOutcomes ELSE {TRUE}

\* The rows in the order the store returns them without ORDER BY: that of
\* the primary key.
RECURSIVE SeqById(_)
SeqById(rows) ==
  IF rows = {} THEN <<>>
  ELSE LET m == CHOOSE u \in rows : \A v \in rows : u.id <= v.id
       IN <<m>> \o SeqById(rows \ {m})

\* query.offset(offset).limit(limit).all()
Page(rows, offset, limit) ==
  SubSeq(rows, offset + 1,
         IF offset + limit < Len(rows) THEN offset + limit ELSE Len(rows))

\* What response_model=UserRead asks of a returned object: the fields
\* UserRead requires must be attributes of it, and name and phone_number
\* must be set.
UserReadValid(obj) ==
  /\ HasAttr(obj, "housing_preference") /\ HasAttr(obj, "listing_group")
  /\ obj.name # None /\ obj.phone_number # None

\* list_users: the filters that are truthy are applied, then offset and
\* limit; the rows returned are then validated as List[UserRead], and a row
\* that does not validate fails the response.
list_users(offset, limit, name, email) ==
  LET q1 == IF ~Falsy(name) THEN {u \in users : u.name = name} ELSE users
      q2 == IF ~Falsy(email) THEN {u \in q1 : u.email = email} ELSE q1
      rows == Page(SeqById(q2), offset, limit)
  IN IF \A k \in 1..Len(rows) : UserReadValid(rows[k])
     THEN [status |-> 200, detail |-> None, body |-> rows]
     ELSE [status |-> 500, detail |-> "ResponseValidationError", body |-> <<>>]

\* -------------------------------------------------------------- clients
\* What a client can put in the Authorization header: nothing, a token it
\* was given, that token under another scheme spelling, re-typed, or signed
\* with a key that is not the server's.
\* ------------------------------------------------------------------ seed
\* The dummy data of the seed script, as the keyword arguments it passes.
DUMMY_USERS ==
  << [name |-> "Ada Kate", email |-> "ada@gmail.com",
      phone_number |-> "+12019460958",
      housing_preference |-> "single_family_home", listing_group |-> "facebook"],
     [name |-> "Ben Smith", email |-> "ben@example.com",
      phone_number |-> "+15551234567",
      housing_preference |-> "apartment", listing_group |-> "zillow"],
     [name |-> "Clara Diaz", email |-> "clara@work.net",
      phone_number |-> "+442071112222",
      housing_preference |-> "condo", listing_group |-> "realtor"] >>

\* The mapped attributes of UserDB.
UserDBColumns ==
  {"id", "name", "email", "phone_number", "bio", "location", "created_at",
   "updated_at"}

\* UserDB(**user_data): the declarative constructor raises TypeError for a
\* keyword that is not an attribute of the class; otherwise the row takes
\* the keywords given and the column defaults for the rest.
UserDB(user_data, new_user_id, now) ==
  IF ~(DOMAIN user_data \subseteq UserDBColumns)
  THEN [raised |-> TRUE, row |-> NoRow]
  ELSE LET Col(c, default) == IF c \in DOMAIN user_data THEN user_data[c] ELSE default
       IN [raised |-> FALSE,
           row |-> [id |-> Col("id", new_user_id), email |-> Col("email", None),
                    name |-> Col("name", None),
                    phone_number |-> Col("phone_number", None),
                    bio |-> Col("bio", None), location |-> Col("location", None),
                    created_at |-> Col("created_at", now),
                    updated_at |-> Col("updated_at", now)]]

\* The loop of seed() from the k-th dummy user on, queued being the rows the
\* session holds for its commit and n the ids drawn so far.  The session is
\* made with autoflush=False, so the lookup sees the stored rows only.  An
\* exception leaves the loop before db.commit(), so nothing the session
\* queued is stored.
RECURSIVE seed_from(_, _, _, _)
seed_from(k, queued, n, now) ==
  IF k > Len(DUMMY_USERS)
  THEN [detail |-> "SUCCESS", users |-> users \cup queued, uuids |-> n]
  ELSE LET user_data == DUMMY_USERS[k]
           exists == {u \in users : u.email = user_data.email} # {}
           new_user == UserDB(user_data, n + 1, now)
       IN IF exists THEN seed_from(k + 1, queued, n, now)
          ELSE IF new_user.raised
          THEN [detail |-> "TypeError", users |-> users, uuids |-> uuids]
          ELSE seed_from(k + 1, queued \cup {new_user.row}, n + 1, now)

\* seed(): the three dummy users in order, one commit after the loop, any
\* exception printed and swallowed.
seed == seed_from(1, {}, uuids, clock)

HeadersFor(t) ==
  { Bearer(t),
    [present |-> TRUE, scheme |-> "bearer ", token |-> t],
    Bearer([t EXCEPT !.typ = "refresh"]),
    Bearer([t EXCEPT !.typ = None]),
    Bearer([t EXCEPT !.key = "other"]) }

Headers == {NoHeader} \cup UNION {HeadersFor(t) : t \in issued}

PlainHeaders == {NoHeader} \cup {Bearer(t) : t \in issued}

\* The client keeps the tokens it is given, up to MaxTokens of them.
Keep(tok) == IF Cardinality(issued) < MaxTokens THEN issued \cup {tok} ELSE issued

\* ------------------------------------------------------------ connection
\* os.environ.get(key, default): the environment is a function from the
\* names that are set to their values.
environ_get(env, key, default) == IF key \in DOMAIN env THEN env[key] ELSE default

DigitChars == <<"0", "1", "2", "3", "4", "5", "6", "7", "8", "9">>

DigitValue(c) == (CHOOSE d \in 1..10 : DigitChars[d] = c) - 1

RECURSIVE int_digits(_)
int_digits(s) ==
  IF s = <<>> THEN 0
  ELSE 10 * int_digits(SubSeq(s, 1, Len(s) - 1)) + DigitValue(s[Len(s)])

\* int(x) of a string, given by its characters: the decimal value, or
\* ValueError for the empty string and for a character that is no digit.
int(s) ==
  IF s = <<>> \/ \E k \in 1..Len(s) : \A d \in 1..10 : DigitChars[d] # s[k]
  THEN [raised |-> TRUE, value |-> 0]
  ELSE [raised |-> FALSE, value |-> int_digits(s)]

\* The port used when MYSQL_PORT is not set.
DefaultPort == 3306

\* db_port = int(os.environ.get("MYSQL_PORT", 3306)).
db_port(env) ==
  IF "MYSQL_PORT" \in DOMAIN env THEN int(env["MYSQL_PORT"])
  ELSE [raised |-> FALSE, value |-> DefaultPort]

\* Python's truth value of an optional string: None and "" are false.
Truthy(x) == x # None /\ x # ""

\* URL.create for the unix socket of a Cloud SQL instance.
SocketUrl(env, connection_name) ==
  [mode |-> "socket-path", drivername |-> "mysql+pymysql",
   username |-> environ_get(env, "MYSQL_USER", "root"),
   database |-> environ_get(env, "MYSQL_DB", "bookings_db"),
   unix_socket |-> <<"/cloudsql/", connection_name>>]

\* URL.create for a host and a port over TCP.
TcpUrl(env) ==
  [mode |-> "host-port", drivername |-> "mysql+pymysql",
   username |-> environ_get(env, "MYSQL_USER", "root"),
   database |-> environ_get(env, "MYSQL_DB", "bookings_db"),
   host |-> environ_get(env, "MYSQL_HOST", "localhost"),
   port |-> db_port(env).value]

OverrideUrl(env) == [mode |-> "explicit-override", url |-> env["DATABASE_URL"]]

\* The import ended in an exception: there is no engine and no service.
ImportFailed == [mode |-> "ValueError"]

\* The instance connection name as read, and dropped on Windows.
connection_name(env, name) ==
  IF name = "nt" THEN None ELSE environ_get(env, "INSTANCE_CONNECTION_NAME", None)

\* A module that looks at the instance connection name before it looks at
\* the override.
connection_url_socket_first(env, name) ==
  IF db_port(env).raised THEN ImportFailed
  ELSE IF Truthy(connection_name(env, name)) THEN SocketUrl(env, connection_name(env, name))
  ELSE IF Truthy(environ_get(env, "DATABASE_URL", None)) THEN OverrideUrl(env)
  ELSE TcpUrl(env)

\* The module body of database_connection: the constants are read first
\* (a MYSQL_PORT that is no number ends the import there), then the URL is
\* chosen: the override, else the unix socket, else TCP.
connection_url(env, name) ==
  IF db_port(env).raised THEN ImportFailed
  ELSE IF Truthy(environ_get(env, "DATABASE_URL", None)) THEN OverrideUrl(env)
  ELSE IF Truthy(connection_name(env, name)) THEN SocketUrl(env, connection_name(env, name))
  ELSE TcpUrl(env)

\* No engine yet: database_connection has not been imported.
NoEngine == [mode |-> "None"]

\* One variable set to one value, and the empty environment.
Setting(key, value) == [k \in {key} |-> value]

NoSetting == [k \in {} |-> None]

Merge(f, g) == [k \in DOMAIN f \cup DOMAIN g |-> IF k \in DOMAIN f THEN f[k] ELSE g[k]]

\* The environments a deployment can start in: each variable the module
\* branches on unset, empty or set; the port unset, a number or no number.
Environs ==
  { Merge(Merge(u, c), Merge(h, q)) :
      u \in {NoSetting, Setting("DATABASE_URL", ""),
             Setting("DATABASE_URL", "sqlite:///./test.db")},
      c \in {NoSetting, Setting("INSTANCE_CONNECTION_NAME", ""),
             Setting("INSTANCE_CONNECTION_NAME", "proj:region:users")},
      h \in {NoSetting, Setting("MYSQL_HOST", "10.0.0.5")},
      q \in {NoSetting, Setting("MYSQL_PORT", <<"3", "3", "0", "7">>),
             Setting("MYSQL_PORT", <<"d", "b">>)} }

OsNames == {"posix", "nt"}

\* ------------------------------------------------------------------ init
Init ==
  /\ users = {}
  /\ events = <<>>
  /\ failed = 0
  /\ publisher \in BOOLEAN
  /\ clock = 0
  /\ ticks = 0
  /\ uuids = 0
  /\ issued = {}
  /\ pc = [p \in Procs |-> "idle"]
  /\ loc = [p \in Procs |-> NoRow]
  /\ last = NoLast
  /\ environ = NoSetting
  /\ os_name = "posix"
  /\ engine = connection_url(environ, os_name)

\* The process before database_connection is imported, in any of the
\* environments.
InitConn ==
  /\ users = {}
  /\ events = <<>>
  /\ failed = 0
  /\ publisher \in BOOLEAN
  /\ clock = 0
  /\ ticks = 0
  /\ uuids = 0
  /\ issued = {}
  /\ pc = [p \in Procs |-> "idle"]
  /\ loc = [p \in Procs |-> NoRow]
  /\ last = NoLast
  /\ environ \in Environs
  /\ os_name \in OsNames
  /\ engine = NoEngine

\* The response leaves the worker idle with its locals dropped.
Respond(p, op, status, detail) ==
  /\ last' = [op |-> op, status |-> status, detail |-> detail, at |-> clock]
  /\ pc' = [pc EXCEPT ![p] = "idle"]
  /\ loc' = [loc EXCEPT ![p] = NoRow]

\* --------------------------------------------------------------- actions
LoginStart(p, google_token) ==
  /\ pc[p] = "idle"
  /\ LET o == google_login(google_token) IN
     IF o.pending
     THEN /\ uuids < MaxIds
          /\ uuids' = uuids + 1
          /\ loc' = [loc EXCEPT ![p] = o.user]
          /\ pc' = [pc EXCEPT ![p] = "login_commit"]
          /\ UNCHANGED <<issued, last>>
     ELSE /\ Respond(p, "login", o.status, o.detail)
          /\ issued' = IF o.status = 200 THEN Keep(o.token) ELSE issued
          /\ UNCHANGED uuids
  /\ UNCHANGED <<users, events, failed, publisher, clock, ticks>>
  /\ UNCHANGED dbvars

LoginCommit(p) ==
  /\ pc[p] = "login_commit"
  /\ LET o == google_login_commit(loc[p]) IN
     IF o.raised
     THEN /\ Respond(p, "login", 500, "IntegrityError")
          /\ UNCHANGED users
     ELSE /\ users' = o.users
          /\ loc' = [loc EXCEPT ![p] = o.user]
          /\ pc' = [pc EXCEPT ![p] = "login_publish"]
          /\ UNCHANGED last
  /\ UNCHANGED <<events, failed, publisher, clock, ticks, uuids, issued>>
  /\ UNCHANGED dbvars

LoginPublish(p, busOk) ==
  /\ pc[p] = "login_publish"
  /\ busOk \in BusOutcomes
  /\ LET o == google_login_finish(loc[p], busOk) IN
     /\ events' = o.events
     /\ failed' = o.failed
     /\ Respond(p, "login", o.status, o.detail)
     /\ issued' = Keep(o.token)
  /\ UNCHANGED <<users, publisher, clock, ticks, uuids>>
  /\ UNCHANGED dbvars

UpdateUser(p, authorization, user_id, payload, busOk) ==
  /\ pc[p] = "idle"
  /\ busOk \in UpdateBusOutcomes(authorization, user_id, payload)
  /\ LET o == update_user(authorization, user_id, payload, busOk) IN
     /\ users' = o.users
     /\ events' = o.events
     /\ failed' = o.failed
     /\ Respond(p, "update", o.status, o.detail)
  /\ UNCHANGED <<publisher, clock, ticks, uuids, issued>>
  /\ UNCHANGED dbvars

DeleteStart(p, authorization, user_id) ==
  /\ pc[p] = "idle"
  /\ LET o == delete_user(authorization, user_id) IN
     IF o.pending
     THEN /\ loc' = [loc EXCEPT ![p] = o.user]
          /\ pc' = [pc EXCEPT ![p] = "delete_commit"]
          /\ UNCHANGED last
     ELSE Respond(p, "delete", o.status, o.detail)
  /\ UNCHANGED <<users, events, failed, publisher, clock, ticks, uuids, issued>>
  /\ UNCHANGED dbvars

DeleteCommit(p) ==
  /\ pc[p] = "delete_commit"
  /\ users' = delete_user_commit(loc[p])
  /\ pc' = [pc EXCEPT ![p] = "delete_publish"]
  /\ UNCHANGED <<events, failed, publisher, clock, ticks, uuids, issued, loc, last>>
  /\ UNCHANGED dbvars

DeletePublish(p, busOk) ==
  /\ pc[p] = "delete_publish"
  /\ busOk \in BusOutcomes
  /\ LET o == delete_user_finish(loc[p].id, busOk) IN
     /\ events' = o.events
     /\ failed' = o.failed
     /\ Respond(p, "delete", o.status, o.detail)
  /\ UNCHANGED <<users, publisher, clock, ticks, uuids, issued>>
  /\ UNCHANGED dbvars

\* publisher.publish(...) handed back its future and the bus never settles
\* it: the worker stays inside future.result(), which is called without a
\* timeout, and no step of the handler follows.
PublishWait(p) ==
  /\ pc[p] \in {"login_publish", "delete_publish"}
  /\ publisher
  /\ pc' = [pc EXCEPT ![p] = IF pc[p] = "login_publish" THEN "login_wait"
                                                        ELSE "delete_wait"]
  /\ UNCHANGED <<users, events, failed, publisher, clock, ticks, uuids, issued,
                 loc, last>>
  /\ UNCHANGED dbvars

\* One run of the seed script against the users table.
Seed(p) ==
  /\ pc[p] = "idle"
  /\ LET o == seed IN
     /\ o.uuids <= MaxIds
     /\ users' = o.users
     /\ uuids' = o.uuids
     /\ Respond(p, "seed", 0, o.detail)
  /\ UNCHANGED <<events, failed, publisher, clock, ticks, issued>>
  /\ UNCHANGED dbvars

\* The import of database_connection at startup: the module body runs once
\* and leaves the engine, or the exception that ended it.
Startup ==
  /\ engine = NoEngine
  /\ engine' = connection_url(environ, os_name)
  /\ UNCHANGED <<users, events, failed, publisher, clock, ticks, uuids, issued,
                 pc, loc, last, environ, os_name>>

\* get_db(): a request gets its Session from SessionLocal, which is bound
\* to the engine the import left.
HasEngine == engine \notin {NoEngine, ImportFailed}

CreateUser(p, payload, busOk) ==
  /\ pc[p] = "idle"
  /\ busOk \in CreateBusOutcomes(payload)
  /\ LET o == create_user(payload, busOk) IN
     /\ o.uuids <= MaxIds
     /\ users' = o.users
     /\ events' = o.events
     /\ failed' = o.failed
     /\ uuids' = o.uuids
     /\ Respond(p, "create", o.status, o.detail)
  /\ UNCHANGED <<publisher, clock, ticks, issued>>
  /\ UNCHANGED dbvars

ListUsers(p, offset, limit, name, email) ==
  /\ pc[p] = "idle"
  /\ LET o == list_users(offset, limit, name, email) IN
     Respond(p, "list", o.status, o.detail)
  /\ UNCHANGED <<users, events, failed, publisher, clock, ticks, uuids, issued>>
  /\ UNCHANGED dbvars

\* Time passes between requests: the steps of one request are taken within
\* the same second, and the clock moves by a token's lifetime, or one
\* second more, while no request is being served.
Tick(d) ==
  /\ \A p \in Procs : pc[p] = "idle"
  /\ ticks < MaxTicks
  /\ ticks' = ticks + 1
  /\ clock' = clock + d
  /\ UNCHANGED <<users, events, failed, publisher, uuids, issued, pc, loc, last>>
  /\ UNCHANGED dbvars

\* The bus accepts every publish.
Accepts == {TRUE}

\* Two workers serving requests concurrently at one instant of the clock,
\* the bus accepting every publish.
Next ==
  \/ \E p \in Procs, g \in Assertions : LoginStart(p, g)
  \/ \E p \in Procs : LoginCommit(p)
  \/ \E p \in Procs, busOk \in Accepts : LoginPublish(p, busOk)
  \/ \E p \in Procs, h \in PlainHeaders, i \in Ids, u \in Payloads, busOk \in Accepts :
        UpdateUser(p, h, i, u, busOk)
  \/ \E p \in Procs, h \in PlainHeaders, i \in Ids : DeleteStart(p, h, i)
  \/ \E p \in Procs : DeleteCommit(p)
  \/ \E p \in Procs, busOk \in Accepts : DeletePublish(p, busOk)

Spec == Init /\ [][Next]_vars

\* One worker serving requests one after another while time passes, with
\* every header a client can build, the bus accepting every publish.
NextSeq ==
  \/ \E g \in Assertions : LoginStart("w1", g)
  \/ LoginCommit("w1")
  \/ \E busOk \in Accepts : LoginPublish("w1", busOk)
  \/ \E h \in Headers, i \in Ids, u \in Payloads, busOk \in Accepts :
        UpdateUser("w1", h, i, u, busOk)
  \/ \E h \in Headers, i \in Ids : DeleteStart("w1", h, i)
  \/ DeleteCommit("w1")
  \/ \E busOk \in Accepts : DeletePublish("w1", busOk)
  \/ \E d \in {JWT_EXP_SECONDS, JWT_EXP_SECONDS + 1} : Tick(d)

SpecSeq == Init /\ [][NextSeq]_vars

\* One worker serving requests one after another at one instant of the
\* clock, create and list among them, the bus refusing up to
\* MaxBusFailures publishes.
NextBus ==
  \/ \E g \in Assertions : LoginStart("w1", g)
  \/ LoginCommit("w1")
  \/ \E busOk \in BOOLEAN : LoginPublish("w1", busOk)
  \/ \E h \in PlainHeaders, i \in Ids, u \in Payloads, busOk \in BOOLEAN :
        UpdateUser("w1", h, i, u, busOk)
  \/ \E h \in PlainHeaders, i \in Ids : DeleteStart("w1", h, i)
  \/ DeleteCommit("w1")
  \/ \E busOk \in BOOLEAN : DeletePublish("w1", busOk)
  \/ \E c \in Creates, busOk \in BOOLEAN : CreateUser("w1", c, busOk)
  \/ \E offset \in 0..1, limit \in 0..MaxIds, name \in {None, "", "Alice"},
        email \in {None} \cup Emails :
        ListUsers("w1", offset, limit, name, email)

SpecBus == Init /\ [][NextBus]_vars

\* Two workers serving requests concurrently at one instant of the clock,
\* the bus accepting a publish, refusing it or never answering it.
NextLive ==
  \/ \E p \in Procs, g \in Assertions : LoginStart(p, g)
  \/ \E p \in Procs : LoginCommit(p)
  \/ \E p \in Procs, busOk \in BOOLEAN : LoginPublish(p, busOk)
  \/ \E p \in Procs, h \in PlainHeaders, i \in Ids, u \in Payloads, busOk \in BOOLEAN :
        UpdateUser(p, h, i, u, busOk)
  \/ \E p \in Procs, h \in PlainHeaders, i \in Ids : DeleteStart(p, h, i)
  \/ \E p \in Procs : DeleteCommit(p)
  \/ \E p \in Procs, busOk \in BOOLEAN : DeletePublish(p, busOk)
  \/ \E p \in Procs : PublishWait(p)

\* The steps by which a worker goes on with the request it is serving.  Each
\* handler is a plain def run on its own thread of the server's pool, so a
\* worker that can go on does go on.
WorkerStep(p) ==
  \/ LoginCommit(p)
  \/ \E busOk \in BOOLEAN : LoginPublish(p, busOk)
  \/ DeleteCommit(p)
  \/ \E busOk \in BOOLEAN : DeletePublish(p, busOk)
  \/ PublishWait(p)

SpecLive == Init /\ [][NextLive]_vars /\ \A p \in Procs : WF_vars(WorkerStep(p))

\* What verify_oauth2_token makes of the tokens of the people the seed
\* script names.
DummyAssertions ==
  { [valid |-> TRUE, email |-> DUMMY_USERS[k].email, name |-> DUMMY_USERS[k].name] :
      k \in 1..Len(DUMMY_USERS) }

\* The seed script run any number of times against the table of a service
\* with one worker, where the people it names log in and delete their
\* Accounts.
NextSeed ==
  \/ Seed("w1")
  \/ \E g \in DummyAssertions : LoginStart("w1", g)
  \/ LoginCommit("w1")
  \/ \E busOk \in Accepts : LoginPublish("w1", busOk)
  \/ \E h \in PlainHeaders, i \in Ids : DeleteStart("w1", h, i)
  \/ DeleteCommit("w1")
  \/ \E busOk \in Accepts : DeletePublish("w1", busOk)

SpecSeed == Init /\ [][NextSeed]_vars

\* The service from the start of its process: the import of
\* database_connection, then logins served by one worker.
NextConn ==
  \/ Startup
  \/ HasEngine /\ \E g \in Assertions : LoginStart("w1", g)
  \/ LoginCommit("w1")
  \/ \E busOk \in Accepts : LoginPublish("w1", busOk)

SpecConn == InitConn /\ [][NextConn]_vars

\* ================================================================ claims
Idle == \A p \in Procs : pc[p] = "idle"

AccountsOf(e) == {u \in users : u.email = e}

CreatedFor(e) ==
  {k \in 1..Len(events) :
     events[k].event_type = "USER_CREATED" /\ events[k].payload.email = e}

NoDeleteYet ==
  /\ \A p \in Procs : pc[p] \notin {"delete_commit", "delete_publish"}
  /\ \A k \in 1..Len(events) : events[k].event_type # "USER_DELETED"

\* C1: when two first logins for one email race, the one whose insert loses
\* still answers normally: no login that passed verification ends in a
\* server error.  The code does not catch the insert conflict, so this is
\* violated.
C1_RaceLoserAnswersNormally ==
  last.op = "login" => last.status \in {200, 401}

\* C1, the race itself: both workers hold a skeleton row for the same email,
\* neither inserted yet.
C1_BothPassedLookup ==
  /\ pc["w1"] = "login_commit" /\ pc["w2"] = "login_commit"
  /\ loc["w1"].email = loc["w2"].email

\* C2: with the bus configured and accepting, and before any delete, logins
\* for one email, sequential or interleaved, leave exactly one Account for
\* it and exactly one USER_CREATED event (counting the one a worker is
\* about to publish); an email for which a token was handed out has its
\* Account.
C2_OneAccountOneCreated ==
  (publisher /\ NoDeleteYet) =>
    \A e \in Emails :
      LET publishing == {p \in Procs : pc[p] = "login_publish" /\ loc[p].email = e}
      IN /\ Cardinality(AccountsOf(e)) <= 1
         /\ Cardinality(CreatedFor(e)) + Cardinality(publishing)
              = Cardinality(AccountsOf(e))
         /\ (\E t \in issued : t.email = e) => Cardinality(AccountsOf(e)) = 1

\* C2, its case: two interleaved logins for one email have both answered,
\* one of them refused by the store, and one Account and one event exist.
C2_Witness ==
  /\ publisher /\ Idle /\ NoDeleteYet
  /\ last.op = "login" /\ last.detail = "IntegrityError"
  /\ \E e \in Emails :
       Cardinality(AccountsOf(e)) = 1 /\ Cardinality(CreatedFor(e)) = 1

\* C3: no two Accounts share an email, and every stored Account has both
\* its id and its email set.
C3_UniqueEmailWholeRows ==
  /\ \A u, v \in users : u.email = v.email => u = v
  /\ \A u \in users : u.id \in Ids /\ u.email \in Emails

\* C3, its case: a second insert for a stored email has just been refused
\* while the worker that inserted first has not answered yet.
C3_Witness ==
  /\ last.op = "login" /\ last.detail = "IntegrityError"
  /\ \E p \in Procs : pc[p] = "login_publish" /\ loc[p] \in users

\* A header that carries a session: the Bearer scheme, a token signed by the
\* server with its algorithm, tagged "access", not past its expiry.
ValidSession(h, now) ==
  /\ h.present /\ h.scheme = "Bearer "
  /\ h.token.key = JWT_SECRET /\ h.token.alg = JWT_ALGO
  /\ h.token.typ = "access"
  /\ now <= h.token.exp

\* C4: an update or a delete addressed to id A under a valid session whose
\* subject is not A is answered 403, whether or not A is stored, and leaves
\* the store and the events as they are.
C4_ForeignSubjectForbidden ==
  \A h \in Headers, i \in Ids :
    (ValidSession(h, clock) /\ h.token.sub # i) =>
      /\ \A u \in Payloads, busOk \in BOOLEAN :
           LET o == update_user(h, i, u, busOk) IN
           o.status = 403 /\ o.users = users /\ o.events = events
      /\ LET d == delete_user(h, i) IN d.status = 403 /\ ~d.pending

\* C4, its case: an update addressed to an id that is not stored, under the
\* token of another subject, has been answered 403.
C4_Witness ==
  /\ last.op = "update" /\ last.status = 403
  /\ users = {} /\ issued # {}

\* C5: a refused publish is never reported to the caller of login, update
\* or delete.  delete_user does not guard its publish, so this is violated.
C5_PublishFailureNotSurfaced ==
  last.detail # "PublishError"

\* C5, the part that holds: a login whose publish was refused answered 200.
C5_LoginSwallowsRefusal ==
  last.op = "login" /\ last.status = 200 /\ failed = 1 /\ events = <<>>

\* C6: for every subject and email, the token issued now is accepted under
\* the Bearer scheme at every instant up to and including its expiry,
\* 3600 seconds after issue, and yields that subject, that email and the
\* type tag "access"; so is every token handed out earlier, until it expires.
C6_IssueThenValidate ==
  /\ \A s \in Ids, e \in Emails :
       \A now \in {clock, clock + 1, clock + JWT_EXP_SECONDS - 1,
                   clock + JWT_EXP_SECONDS} :
         LET v == require_auth(Bearer(generate_jwt(s, e, clock)), now) IN
         /\ v.status = 200
         /\ v.payload.sub = s /\ v.payload.email = e /\ v.payload.typ = "access"
  /\ \A t \in issued :
       clock <= t.iat + JWT_EXP_SECONDS =>
         LET v == require_auth(Bearer(t), clock) IN
         /\ v.status = 200
         /\ v.payload.sub = t.sub /\ v.payload.email = t.email
         /\ v.payload.typ = "access"
         /\ \E u \in Payloads : update_user(Bearer(t), t.sub, u, TRUE).status # 401

\* C6, its case: a protected request carrying a token at the very second it
\* expires got past the guard.
C6_Witness ==
  /\ clock > 0
  /\ \E t \in issued : clock = t.iat + JWT_EXP_SECONDS
  /\ last.op \in {"update", "delete"} /\ last.at = clock
  /\ last.status \in {403, 404, 500}

\* C7: a token signed by the server and not expired whose type tag is not
\* "access", or is missing, is answered 401 by the guard, and the update or
\* delete it came with does nothing.
C7_WrongTypeRejected ==
  \A t \in issued, typ \in {"refresh", None} :
    clock <= t.exp =>
      LET h == Bearer([t EXCEPT !.typ = typ]) IN
      /\ require_auth(h, clock).status = 401
      /\ \A i \in Ids :
           /\ \A u \in Payloads, busOk \in BOOLEAN :
                LET o == update_user(h, i, u, busOk) IN
                o.status = 401 /\ o.users = users /\ o.events = events
           /\ LET d == delete_user(h, i) IN d.status = 401 /\ ~d.pending

\* C7, its case: a request with a re-typed token was refused while the
\* Account of its subject is stored.
C7_Witness ==
  /\ last.status = 401 /\ last.detail = "Invalid token type"
  /\ \E t \in issued : \E u \in users : u.id = t.sub

\* C8: a token handed out stays accepted until its expiry whatever became of
\* its Account: with the Account deleted, the guard still yields the token's
\* claims, and a delete by that token is answered 404, not 401.
C8_ValidWhateverTheStore ==
  \A t \in issued :
    clock <= t.exp =>
      /\ require_auth(Bearer(t), clock).status = 200
      /\ require_auth(Bearer(t), clock).payload = t
      /\ (\A u \in users : u.id # t.sub) =>
            delete_user(Bearer(t), t.sub).status = 404

\* C8, its case: the Account a token was minted for has been deleted, and a
\* later request with that token, at a later time, got past the guard.
C8_Witness ==
  /\ last.op = "delete" /\ last.status = 404 /\ last.at > 0
  /\ \E t \in issued : t.exp >= last.at /\ \A u \in users : u.id # t.sub

\* C9: an update by the owner of a stored Account succeeds, sets updated_at,
\* and leaves alone id, email, created_at, every field the payload does not
\* carry (bio, location) and every other Account.  update_user reads
\* payload.bio, which UserUpdate does not declare, so no update succeeds.
C9_OwnerUpdateTouchesOnlyPayloadFields ==
  \A t \in issued, u \in Payloads :
    (ValidSession(Bearer(t), clock) /\ \E a \in users : a.id = t.sub) =>
      LET o == update_user(Bearer(t), t.sub, u, TRUE)
          a == CHOOSE a \in users : a.id = t.sub
      IN /\ o.status = 200
         /\ o.user.updated_at = clock
         /\ o.user.id = a.id /\ o.user.email = a.email
         /\ o.user.created_at = a.created_at
         /\ o.user.bio = a.bio /\ o.user.location = a.location
         /\ o.users \ {o.user} = users \ {a}

\* C9, what happens instead: the owner's update was answered 500 and the
\* Account is as the login left it.
C9_OwnerUpdateFails ==
  /\ last.op = "update" /\ last.status = 500 /\ last.detail = "AttributeError"
  /\ \E t \in issued : \E a \in users :
       a.id = t.sub /\ a.updated_at = a.created_at

\* C10: a login for an email that has an Account changes neither the store
\* nor the events, answers 200, and the token's subject and the profile it
\* returns are those of that Account.
C10_LoginExistingChangesNothing ==
  [][\A g \in Assertions :
       (g.valid /\ (\E a \in users : a.email = g.email) /\ LoginStart("w1", g)) =>
         LET a == CHOOSE a \in users : a.email = g.email
             o == google_login(g)
         IN /\ users' = users /\ events' = events
            /\ last' = [op |-> "login", status |-> 200, detail |-> None,
                        at |-> clock]
            /\ o.token.sub = a.id /\ o.token.email = a.email
            /\ o.user = a]_vars

\* C10, its case: a login was answered 200 at a time later than the
\* creation of every stored Account.
C10_Witness ==
  /\ last.op = "login" /\ last.status = 200
  /\ users # {}
  /\ \A a \in users : a.created_at < last.at

\* C11: a login whose assertion fails verification is answered 401; the
\* step creates or changes no Account, emits no event and hands out no
\* token, and the handler does not go on to an insert.
C11_FailedVerificationRejected ==
  [][\A p \in Procs, g \in Assertions :
       (~g.valid /\ LoginStart(p, g)) =>
         /\ google_login(g).status = 401
         /\ google_login(g).token = NoToken /\ ~google_login(g).pending
         /\ last' = [op |-> "login", status |-> 401,
                     detail |-> "Invalid Google token", at |-> clock]
         /\ pc'[p] = "idle"
         /\ users' = users /\ events' = events /\ issued' = issued]_vars

\* C11, its case: a login was answered 401 while the Account named by the
\* rejected assertion is stored and no token is in any client's hands.
C11_Witness ==
  /\ last.op = "login" /\ last.status = 401
  /\ \E a \in users : a.email = "alice@example.com"
  /\ issued = {}

\* The headers the guard must refuse although their type tag is "access":
\* none, a scheme that is not exactly "Bearer ", a signature by another
\* key, a token past its expiry.
BadHeader(h, now) ==
  \/ ~h.present
  \/ h.scheme # "Bearer "
  \/ h.token.key # JWT_SECRET
  \/ h.token.exp < now

\* C12: the guard answers 401 to every header that is missing, does not
\* begin with "Bearer ", is signed by another key or is past its expiry, and
\* an update or delete that comes with it is answered 401 with the store
\* and the events unchanged.
C12_BadHeaderUnauthorized ==
  \A h \in Headers :
    BadHeader(h, clock) =>
      /\ require_auth(h, clock).status = 401
      /\ require_auth(h, clock).payload = NoToken
      /\ \A i \in Ids :
           /\ \A u \in Payloads, busOk \in BOOLEAN :
                LET o == update_user(h, i, u, busOk) IN
                o.status = 401 /\ o.users = users /\ o.events = events
           /\ LET d == delete_user(h, i) IN d.status = 401 /\ ~d.pending

\* C12, its case: the owner's token, one second past its expiry, was
\* refused while the Account is stored.
C12_Witness ==
  /\ last.status = 401 /\ last.detail = "Invalid or expired token"
  /\ last.op \in {"update", "delete"}
  /\ \E t \in issued :
       /\ last.at = t.exp + 1
       /\ \E a \in users : a.id = t.sub

\* C13: a delete by the owner of id i: when no Account i is stored, it is
\* answered 404 and changes neither the store nor the events; otherwise the
\* handler goes on to its commit, which removes the Account with that id
\* and no other, and then, the bus being configured and accepting, to its
\* publish, which appends one USER_DELETED event carrying that id.
C13_DeleteByOwner ==
  [][\A p \in Procs :
       /\ \A h \in PlainHeaders, i \in Ids :
            (ValidSession(h, clock) /\ h.token.sub = i /\ DeleteStart(p, h, i)) =>
              /\ users' = users /\ events' = events
              /\ IF \A a \in users : a.id # i
                 THEN /\ last' = [op |-> "delete", status |-> 404,
                                  detail |-> "User not found", at |-> clock]
                      /\ pc'[p] = "idle"
                 ELSE /\ pc'[p] = "delete_commit"
                      /\ loc'[p] \in users /\ loc'[p].id = i
       /\ DeleteCommit(p) =>
            /\ users' = {a \in users : a.id # loc[p].id}
            /\ events' = events
       /\ DeletePublish(p, TRUE) =>
            /\ users' = users
            /\ publisher =>
                 events' = Append(events,
                   [event_type |-> "USER_DELETED", timestamp |-> clock,
                    payload |-> [id |-> loc[p].id, email |-> None]])]_vars

\* C13, its case: a delete was answered 200 with the bus configured; the
\* last event is the USER_DELETED of an id no longer stored, and another
\* Account is still there.
C13_Witness ==
  /\ publisher /\ last.op = "delete" /\ last.status = 200
  /\ events # <<>>
  /\ events[Len(events)].event_type = "USER_DELETED"
  /\ \A a \in users : a.id # events[Len(events)].payload.id
  /\ users # {}

Matching(name, email) ==
  {a \in users : (name # None => a.name = name) /\ (email # None => a.email = email)}

\* C15: a list request is answered 200 with Accounts that match every
\* supplied filter, none of them twice, as many as are left of the matching
\* ones after offset, up to limit; without filters, from offset 0 and with
\* a limit of at least the number of Accounts, these are all the Accounts.
\* list_users declares response_model=List[UserRead], whose required fields
\* a stored row does not have, so a list that finds a row is answered 500.
C15_ListReturnsMatching ==
  \A offset \in 0..1, limit \in 0..MaxIds, name \in {None, "Alice"},
     email \in {None} \cup Emails :
    LET o == list_users(offset, limit, name, email)
        m == Cardinality(Matching(name, email))
        rest == IF m > offset THEN m - offset ELSE 0
    IN /\ o.status = 200
       /\ \A k \in 1..Len(o.body) : o.body[k] \in Matching(name, email)
       /\ \A j, k \in 1..Len(o.body) : o.body[j] = o.body[k] => j = k
       /\ Len(o.body) = (IF rest < limit THEN rest ELSE limit)

\* C15, the part that holds: with Accounts stored, a list whose filters no
\* Account passes was answered 200.
C15_EmptyListAnswered ==
  /\ last.op = "list" /\ last.status = 200
  /\ users # {}

\* C16: with no topic configured, publish sends nothing and returns, so a
\* login and a delete that reached their publish answer 200 with their
\* commit in place, and so does the owner's update of a stored Account.
\* The publish does return, but update_user never gets as far (C9).
C16_NoTopicAllSucceed ==
  ~publisher =>
    /\ \A busOk \in BOOLEAN :
         publish_user_event("USER_DELETED", EventPayload(1, None), busOk)
           = [raised |-> FALSE, events |-> events, failed |-> failed]
    /\ \A p \in Procs, busOk \in BOOLEAN :
         /\ pc[p] = "login_publish" =>
              /\ google_login_finish(loc[p], busOk).status = 200
              /\ loc[p] \in users
         /\ pc[p] = "delete_publish" =>
              /\ delete_user_finish(loc[p].id, busOk).status = 200
              /\ \A a \in users : a.id # loc[p].id
    /\ \A t \in issued, u \in Payloads, busOk \in BOOLEAN :
         (ValidSession(Bearer(t), clock) /\ \E a \in users : a.id = t.sub) =>
           update_user(Bearer(t), t.sub, u, busOk).status = 200

\* C16, the part that holds: with no topic configured a delete was answered
\* 200, the Account is gone and nothing was sent.
C16_DeleteWithoutTopic ==
  /\ ~publisher /\ last.op = "delete" /\ last.status = 200
  /\ events = <<>> /\ failed = 0
  /\ \E t \in issued : \A a \in users : a.id # t.sub

\* C17: an event is sent only by a request that has committed what the
\* event reports.  A step that sends appends one event, answers 200, and is
\* taken by a worker standing after its commit: after the insert for
\* USER_CREATED, after the delete for USER_DELETED, and USER_UPDATED goes
\* with the commit of the update; a worker comes to stand after its commit
\* only by the step that inserts, or removes, the row it holds.  So a step
\* that answers 401, 403, 404 or 500 sends nothing.
C17_EventAfterCommit ==
  [][/\ events' # events =>
          /\ Len(events') = Len(events) + 1
          /\ SubSeq(events', 1, Len(events)) = events
          /\ last'.status = 200
          /\ LET e == events'[Len(events')] IN
             \E p \in Procs :
               /\ pc'[p] = "idle"
               /\ \/ /\ e.event_type = "USER_CREATED"
                     /\ pc[p] = "login_publish"
                     /\ e.payload.id = loc[p].id /\ e.payload.email = loc[p].email
                  \/ /\ e.event_type = "USER_DELETED"
                     /\ pc[p] = "delete_publish"
                     /\ e.payload.id = loc[p].id
                  \/ /\ e.event_type = "USER_UPDATED"
                     /\ pc[p] = "idle"
                     /\ \E a \in users' : a.id = e.payload.id /\ a.updated_at = clock
     /\ \A p \in Procs :
          /\ (pc'[p] = "login_publish" /\ pc[p] # "login_publish") =>
               /\ loc'[p] \notin users /\ users' = users \cup {loc'[p]}
          /\ (pc'[p] = "delete_publish" /\ pc[p] # "delete_publish") =>
               /\ loc'[p] = loc[p]
               /\ users' = {a \in users : a.id # loc[p].id}]_vars

\* C17, its case: USER_CREATED and then USER_DELETED were sent for one id,
\* the delete has been answered, and the Account is gone.
C17_Witness ==
  /\ Len(events) >= 2 /\ last.op = "delete" /\ last.status = 200
  /\ events[1].event_type = "USER_CREATED"
  /\ events[Len(events)].event_type = "USER_DELETED"
  /\ events[Len(events)].payload.id = events[1].payload.id
  /\ \A a \in users : a.id # events[1].payload.id

\* C18: update and delete decide in a fixed order.  Without a valid session
\* the answer is 401, whatever the addressed id and whether or not it is
\* stored; with a valid session of another subject it is 403, whether or
\* not the id is stored; 404 is answered only to the owner.
C18_CheckOrder ==
  \A h \in Headers, i \in Ids :
    LET d == delete_user(h, i)
        absent == \A a \in users : a.id # i
        upd(s) == \A u \in Payloads, busOk \in BOOLEAN :
                    update_user(h, i, u, busOk).status = s
    IN /\ ~ValidSession(h, clock) => d.status = 401 /\ upd(401)
       /\ (ValidSession(h, clock) /\ h.token.sub # i) => d.status = 403 /\ upd(403)
       /\ (ValidSession(h, clock) /\ h.token.sub = i /\ absent) =>
            d.status = 404 /\ upd(404)
       /\ d.status = 404 => (ValidSession(h, clock) /\ h.token.sub = i)

\* C18, its case: a delete addressed to an id that is not stored, under the
\* valid token of another subject, was answered 403 and not 404.
C18_Witness ==
  /\ last.op = "delete" /\ last.status = 403
  /\ users = {}
  /\ \E t \in issued : last.at <= t.exp

\* C19: after the owner's update of a stored Account the answer is 200, the
\* stored name and phone are those of the payload, also when the payload's
\* name is the empty string, and updated_at is the time of the update.
\* No update succeeds (C9), and line 315 would skip an empty name.
C19_UpdateStoresPayload ==
  \A t \in issued, u \in Payloads :
    (ValidSession(Bearer(t), clock) /\ \E a \in users : a.id = t.sub) =>
      LET o == update_user(Bearer(t), t.sub, u, TRUE) IN
      /\ o.status = 200
      /\ \E b \in o.users :
           /\ b.id = t.sub
           /\ b.name = u.name /\ b.phone_number = u.phone_number
           /\ b.updated_at = clock

\* C19, what happens instead: the owner's update, made after time has
\* passed, was answered 500, and the Account has the name and the phone the
\* login gave it and the updated_at of its creation.
C19_UpdateStoresNothing ==
  /\ last.op = "update" /\ last.status = 500
  /\ \E t \in issued : \E a \in users :
       /\ a.id = t.sub
       /\ a.name = "Alice" /\ a.phone_number = None
       /\ a.updated_at < last.at

\* C20: from one state to the next, a stored Account that is still stored
\* under its id, or whose email is still stored, has the same id, email and
\* created_at as before.
C20_IdEmailCreatedAtFixed ==
  [][\A a \in users, b \in users' :
       (b.id = a.id \/ b.email = a.email) =>
         /\ b.id = a.id /\ b.email = a.email
         /\ b.created_at = a.created_at]_vars

\* C20, its case: a login was answered at a time later than the creation
\* of a stored Account, which still has the id and the email of the token
\* its first login handed out, and the created_at of that login.
C20_Witness ==
  /\ last.op = "login" /\ last.status = 200 /\ last.at > 0
  /\ \E t \in issued : \E a \in users :
       /\ a.id = t.sub /\ a.email = t.email
       /\ a.created_at = t.iat /\ a.created_at < last.at

\* The USER_DELETED events sent for id i.
DeletedFor(i) ==
  {k \in 1..Len(events) :
     events[k].event_type = "USER_DELETED" /\ events[k].payload.id = i}

\* C22: however the owner's concurrent deletes of one Account interleave,
\* at most one USER_DELETED event is sent for its id, and a delete that
\* finds the row already removed at its commit does not answer 200.
\* delete_user does not look at the number of rows its DELETE matched, so
\* two deletes that both passed the lookup both answer 200 and both publish.
C22_OneDeleteWins ==
  /\ \A i \in Ids : Cardinality(DeletedFor(i)) <= 1
  /\ \A p \in Procs :
       pc[p] = "delete_publish" =>
         \A q \in Procs \ {p} :
           ~(pc[q] = "delete_publish" /\ loc[q].id = loc[p].id)

\* C22, the race itself: two workers hold the same row for deletion, both
\* past the lookup and neither committed yet.
C22_BothPassedLookup ==
  /\ pc["w1"] = "delete_commit" /\ pc["w2"] = "delete_commit"
  /\ loc["w1"] = loc["w2"] /\ loc["w1"] \in users

\* C23: the Account a login inserts has an id that no stored Account has,
\* that no token in a client's hands names and that no event sent so far
\* names; so a token minted for a deleted Account, still unexpired, is
\* answered 403 on the update and the delete of any Account now stored
\* under its email.
C23_FreshIdAfterDelete ==
  /\ \A p \in Procs :
       pc[p] = "login_commit" =>
         /\ \A a \in users : a.id # loc[p].id
         /\ \A t \in issued : t.sub # loc[p].id
         /\ \A k \in 1..Len(events) : events[k].payload.id # loc[p].id
  /\ \A t \in issued, a \in users :
       (a.email = t.email /\ clock <= t.exp /\ \E k \in DeletedFor(t.sub) : TRUE) =>
         /\ a.id # t.sub
         /\ delete_user(Bearer(t), a.id).status = 403
         /\ \A u \in Payloads :
              update_user(Bearer(t), a.id, u, TRUE).status = 403

\* C23, its case: the token of a deleted Account was answered 403 while an
\* Account with another id is stored under the token's email and the token
\* has not expired.
C23_Witness ==
  /\ last.op \in {"update", "delete"} /\ last.status = 403
  /\ \E t \in issued : \E a \in users :
       /\ a.email = t.email /\ a.id # t.sub
       /\ last.at <= t.exp
       /\ DeletedFor(t.sub) # {}

\* C21: a request that has been taken up is never left without a next step:
\* whatever the bus does with a publish (accept it, refuse it, never answer
\* it), the worker can go on to its response.  future.result() is called
\* without a timeout, so a worker whose publish is never answered stays in
\* it: violated.
C21_NoRequestBlocked ==
  \A p \in Procs : pc[p] # "idle" => ENABLED WorkerStep(p)

\* C21 as a liveness property of the fair specification: every request that
\* has been taken up is eventually answered.
C21_EveryRequestFinishes ==
  \A p \in Procs : (pc[p] # "idle") ~> (pc[p] = "idle")

\* C21, what happens instead: a delete has removed its row and the worker
\* serving it waits for the bus, its response not sent.
C21_WaitingOnBus ==
  \E p \in Procs : pc[p] = "delete_wait" /\ loc[p] \notin users

DummyEmails == {DUMMY_USERS[k].email : k \in 1..Len(DUMMY_USERS)}

\* C24: a run of seed() leaves exactly one row for each dummy email.  The
\* dummy data carry housing_preference and listing_group, which UserDB does
\* not have, so the first insert seed() attempts raises and nothing is
\* stored: violated.
C24_SeedLeavesOneRowEach ==
  (last.op = "seed" /\ Idle) =>
    \A e \in DummyEmails : Cardinality(AccountsOf(e)) = 1

\* C24, what happens instead: a run of seed() ended in the swallowed
\* TypeError with a dummy email still without a row, although an earlier
\* dummy email was found and skipped.
C24_SeedStoresNothing ==
  /\ last.op = "seed" /\ last.detail = "TypeError" /\ Idle
  /\ AccountsOf(DUMMY_USERS[1].email) # {}
  /\ \E e \in DummyEmails : AccountsOf(e) = {}

====
